---- MODULE Spec2Model ----
(***************************************************************************)
(* The Abby engine of packages/core/src/index.ts: the flag and variant     *)
(* resolution chains, the merge of a remote snapshot, the cookie           *)
(* ingestion and the listener fan-out.                                     *)
(*                                                                         *)
(* An optional value (null or undefined in the source) is the empty        *)
(* tuple; a present value v is the one-element tuple <<v>>.  An object or  *)
(* a Map is a function whose DOMAIN is its key set.                        *)
(***************************************************************************)
EXTENDS Integers, Sequences, FiniteSets, TLC

VARIABLES
    env,             \* process.env.NODE_ENV
    browser,         \* typeof window / document !== "undefined"
    documentCookie,  \* document.cookie
    settings,        \* config.settings.flags
    hasStorage,      \* the two PersistentStorage arguments were passed
    sameConfig,      \* a second Abby was constructed from the same config object
    configTests,     \* the config.tests object; #data.tests is the same object
    dataFlags,       \* #data.flags
    remoteFlags,     \* the flags of the latest snapshot, as init stored them
    flagOverrides,   \* this.flagOverrides
    testOverrides,   \* this.testOverrides
    testStorage,     \* contents of persistantTestStorage
    flagStorage,     \* contents of persistantFlagStorage
    listeners,       \* this.listeners, in insertion order
    registration,    \* per listener: the latest of subscribe / handle call
    pinned,          \* per flag: the value of the latest updateFlag not overridden
                     \* by a later setLocalOverrides call, and what came since:
                     \* nothing, an init, or an init that ingested a cookie for it
    last,            \* the latest call: operation, argument, outcome
    delivered,       \* listener invocations made by the latest call
    handles,         \* per listener: the handles subscribe returned, open or called
    peer,            \* #data of the second Abby
    dataInitialized, \* this.dataInitialized
    requests         \* per call site: its loadProjectData / getProjectDataAsync call

vars == <<env, browser, documentCookie, settings, hasStorage, sameConfig, configTests,
          dataFlags, remoteFlags, flagOverrides, testOverrides, testStorage, flagStorage,
          listeners, registration, pinned, last, delivered, handles, peer,
          dataInitialized, requests>>

----------------------------------------------------------------------------
(* Bounds *)

MaxListeners == 2
MaxCookieLen == 1
MaxSnapshotFlags == 1
MaxWeight == 1
RandomResolution == 2
MaxHandles == 2
MaxRequests == 2
MaxCookieEntries == 2

----------------------------------------------------------------------------
(* Values *)

Null == <<>>
Some(v) == <<v>>
EmptyMap == [k \in {} |-> k]

\* the one element of a one-element set
Once(S) == CHOOSE x \in S : TRUE

Put(m, k, v) == [x \in DOMAIN m \cup {k} |-> IF x = k THEN v ELSE m[x]]

projectId == "P"
ABBY_AB_STORAGE_PREFIX == "abby-ab-"
ABBY_FF_STORAGE_PREFIX == "abby-ff-"

\* config.flags and config.tests as passed to the constructor
DeclaredFlags == {"f1"}
DeclaredTests == ("t1" :> [variants |-> <<"A", "B">>])

\* names a caller or a snapshot may use; "g" and "u" are not declared
FlagNames == DeclaredFlags \cup {"g"}
TestNames == DOMAIN DeclaredTests \cup {"u"}

Listeners == 1..MaxListeners

\* the call sites that load the remote data
Requests == 1..MaxRequests

SeqsUpTo(S, n) == UNION {[1..k -> S] : k \in 0..n}

\* Math.random(): k / RandomResolution for k in RandomDraws
RandomDraws == 0..(RandomResolution - 1)

----------------------------------------------------------------------------
(* Helpers imported by index.ts whose files are not part of the sources:   *)
(* modelled from sections 4.4 and 4.5 of the specification.                *)

RECURSIVE SumTo(_, _)
SumTo(w, i) == IF i = 0 THEN 0 ELSE w[i] + SumTo(w, i - 1)

\* k / RandomResolution is the uniform draw in [0, 1); the scaled draw is
\* k * total / RandomResolution and the first variant whose cumulative
\* weight strictly exceeds it is selected.
getWeightedRandomVariant(variants, weights, k) ==
    LET w == IF weights = Null THEN [i \in 1..Len(variants) |-> 1] ELSE weights[1]
        total == SumTo(w, Len(w))
    IN  IF Len(w) # Len(variants) \/ total = 0
        THEN [kind |-> "throw", val |-> "InvalidWeightsError"]
        ELSE [kind |-> "return",
              val |-> variants[CHOOSE i \in 1..Len(w) :
                          /\ SumTo(w, i) * RandomResolution > k * total
                          /\ \A j \in 1..(i - 1) :
                                 SumTo(w, j) * RandomResolution <= k * total]]

\* A cookie string is the sequence of its entries; an entry is well formed
\* (name=value) or malformed, and a malformed entry is skipped.  The result
\* maps each cookie name to the value of its last entry.
RECURSIVE parseCookies(_)
parseCookies(cookies) ==
    IF cookies = <<>> THEN EmptyMap
    ELSE LET n == Len(cookies)
             e == cookies[n]
             rest == parseCookies(SubSeq(cookies, 1, n - 1))
         IN  IF e.wellFormed THEN Put(rest, e.name, e.value) ELSE rest

----------------------------------------------------------------------------
(* Cookie names.  A name is a prefix, a project id and a bare name joined  *)
(* as <prefix><project>_<bare>, or a plain name with an empty prefix.      *)

CookieName(prefix, project, bare) == [prefix |-> prefix, project |-> project, bare |-> bare]

\* cookieName.startsWith(prefix)
StartsWith(name, prefix) == name.prefix = prefix

\* a replace that removes nothing
StripProject_keepsName(name) == name.prefix \o name.project \o "_" \o name.bare

\* cookieName.replace(`${prefix}${projectId}_`, ""): the bare name when the
\* cookie is of this project, the whole name otherwise
StripProject(name) ==
    IF name.project = projectId THEN name.bare
    ELSE name.prefix \o name.project \o "_" \o name.bare

----------------------------------------------------------------------------
(* Resolution *)

\* getFeatureFlag with the stored value consulted before the explicit override
getFeatureFlag_storedFirst(key, flags, fOv) ==
    LET storedValue == IF key \in DOMAIN flags THEN flags[key] ELSE Null
        localOverride == IF key \in DOMAIN fOv THEN Some(fOv[key]) ELSE Null
        devOverride == IF key \in DOMAIN settings.devOverrides
                       THEN Some(settings.devOverrides[key]) ELSE Null
    IN  IF storedValue # Null THEN storedValue[1]
        ELSE IF localOverride # Null THEN localOverride[1]
        ELSE IF env = "development" /\ devOverride # Null THEN devOverride[1]
        ELSE IF env = "development" /\ settings.devDefault # Null
             THEN settings.devDefault[1]
        ELSE IF settings.default # Null THEN settings.default[1]
        ELSE FALSE

\* getFeatureFlag without the process.env.NODE_ENV test around the dev settings
getFeatureFlag_anyEnvironment(key, flags, fOv) ==
    LET storedValue == IF key \in DOMAIN flags THEN flags[key] ELSE Null
        localOverride == IF key \in DOMAIN fOv THEN Some(fOv[key]) ELSE Null
        devOverride == IF key \in DOMAIN settings.devOverrides
                       THEN Some(settings.devOverrides[key]) ELSE Null
    IN  IF localOverride # Null THEN localOverride[1]
        ELSE IF devOverride # Null THEN devOverride[1]
        ELSE IF settings.devDefault # Null THEN settings.devDefault[1]
        ELSE IF storedValue # Null THEN storedValue[1]
        ELSE IF settings.default # Null THEN settings.default[1]
        ELSE FALSE

\* getFeatureFlag(key) on #data.flags = flags and this.flagOverrides = fOv
getFeatureFlag(key, flags, fOv) ==
    LET storedValue == IF key \in DOMAIN flags THEN flags[key] ELSE Null
        localOverride == IF key \in DOMAIN fOv THEN Some(fOv[key]) ELSE Null
        devOverride == IF key \in DOMAIN settings.devOverrides
                       THEN Some(settings.devOverrides[key]) ELSE Null
    IN  IF localOverride # Null THEN localOverride[1]
        ELSE IF env = "development" /\ devOverride # Null THEN devOverride[1]
        ELSE IF env = "development" /\ settings.devDefault # Null
             THEN settings.devDefault[1]
        ELSE IF storedValue # Null THEN storedValue[1]
        ELSE IF settings.default # Null THEN settings.default[1]
        ELSE FALSE

\* persistantTestStorage?.get(key)
StorageGet(storage, key) ==
    IF hasStorage /\ key \in DOMAIN storage THEN Some(storage[key]) ELSE Null

\* persistantTestStorage?.set(key, value)
StorageSet(storage, key, value) ==
    IF hasStorage THEN Put(storage, key, value) ELSE storage

\* getTestVariant that does not write the selected variant back to the storage
getTestVariant_noWriteBack(key, tests, tOv, storage, k) ==
    IF key \notin DOMAIN tests
    THEN [kind |-> "throw", val |-> "TypeError", storage |-> storage, drew |-> FALSE]
    ELSE
    LET variants == tests[key].variants
        weights == IF "weights" \in DOMAIN tests[key]
                   THEN Some(tests[key].weights) ELSE Null
        override == IF key \in DOMAIN tOv THEN Some(tOv[key]) ELSE Null
        persistedValue == StorageGet(storage, key)
        weightedVariant == getWeightedRandomVariant(variants, weights, k)
    IN  IF env = "development" /\ override # Null
        THEN [kind |-> "return", val |-> override[1], storage |-> storage, drew |-> FALSE]
        ELSE IF persistedValue # Null
        THEN [kind |-> "return", val |-> persistedValue[1], storage |-> storage,
              drew |-> FALSE]
        ELSE [kind |-> weightedVariant.kind, val |-> weightedVariant.val,
              storage |-> storage, drew |-> TRUE]

\* getTestVariant that selects and stores a variant over a persisted one
getTestVariant_overwrites(key, tests, tOv, storage, k) ==
    IF key \notin DOMAIN tests
    THEN [kind |-> "throw", val |-> "TypeError", storage |-> storage, drew |-> FALSE]
    ELSE
    LET variants == tests[key].variants
        weights == IF "weights" \in DOMAIN tests[key]
                   THEN Some(tests[key].weights) ELSE Null
        override == IF key \in DOMAIN tOv THEN Some(tOv[key]) ELSE Null
        weightedVariant == getWeightedRandomVariant(variants, weights, k)
    IN  IF env = "development" /\ override # Null
        THEN [kind |-> "return", val |-> override[1], storage |-> storage, drew |-> FALSE]
        ELSE IF weightedVariant.kind = "throw"
        THEN [kind |-> "throw", val |-> weightedVariant.val, storage |-> storage,
              drew |-> TRUE]
        ELSE [kind |-> "return", val |-> weightedVariant.val,
              storage |-> StorageSet(storage, key, weightedVariant.val), drew |-> TRUE]

\* getTestVariant that honors the override in every environment
getTestVariant_anyEnvironment(key, tests, tOv, storage, k) ==
    IF key \notin DOMAIN tests
    THEN [kind |-> "throw", val |-> "TypeError", storage |-> storage, drew |-> FALSE]
    ELSE
    LET variants == tests[key].variants
        weights == IF "weights" \in DOMAIN tests[key]
                   THEN Some(tests[key].weights) ELSE Null
        override == IF key \in DOMAIN tOv THEN Some(tOv[key]) ELSE Null
        persistedValue == StorageGet(storage, key)
        weightedVariant == getWeightedRandomVariant(variants, weights, k)
    IN  IF override # Null
        THEN [kind |-> "return", val |-> override[1], storage |-> storage, drew |-> FALSE]
        ELSE IF persistedValue # Null
        THEN [kind |-> "return", val |-> persistedValue[1], storage |-> storage,
              drew |-> FALSE]
        ELSE IF weightedVariant.kind = "throw"
        THEN [kind |-> "throw", val |-> weightedVariant.val, storage |-> storage,
              drew |-> TRUE]
        ELSE [kind |-> "return", val |-> weightedVariant.val,
              storage |-> StorageSet(storage, key, weightedVariant.val), drew |-> TRUE]

\* getTestVariant(key): the outcome, the storage afterwards, and whether
\* the random selector ran
getTestVariant(key, tests, tOv, storage, k) ==
    IF key \notin DOMAIN tests
    THEN [kind |-> "throw", val |-> "TypeError", storage |-> storage, drew |-> FALSE]
    ELSE
    LET variants == tests[key].variants
        weights == IF "weights" \in DOMAIN tests[key]
                   THEN Some(tests[key].weights) ELSE Null
        override == IF key \in DOMAIN tOv THEN Some(tOv[key]) ELSE Null
        persistedValue == StorageGet(storage, key)
        weightedVariant == getWeightedRandomVariant(variants, weights, k)
    IN  IF env = "development" /\ override # Null
        THEN [kind |-> "return", val |-> override[1], storage |-> storage, drew |-> FALSE]
        ELSE IF persistedValue # Null
        THEN [kind |-> "return", val |-> persistedValue[1], storage |-> storage,
              drew |-> FALSE]
        ELSE IF weightedVariant.kind = "throw"
        THEN [kind |-> "throw", val |-> weightedVariant.val, storage |-> storage,
              drew |-> TRUE]
        ELSE [kind |-> "return", val |-> weightedVariant.val,
              storage |-> StorageSet(storage, key, weightedVariant.val), drew |-> TRUE]


\* Object.entries(this.#data.tests): the keys in insertion order
RECURSIVE KeysInOrder(_, _)
KeysInOrder(order, obj) ==
    IF order = <<>> THEN <<>>
    ELSE IF Head(order) \in DOMAIN obj
         THEN <<Head(order)>> \o KeysInOrder(Tail(order), obj)
         ELSE KeysInOrder(Tail(order), obj)

TestOrder == <<"t1", "u">>

\* the tests reduce of getProjectData: the accumulator is #data.tests itself,
\* so every step writes selectedVariant into the stored test object
RECURSIVE ResolveTests(_, _, _, _, _)
ResolveTests(names, tests, tOv, storage, draws) ==
    IF names = <<>>
    THEN [kind |-> "return", val |-> "", tests |-> tests, storage |-> storage]
    ELSE LET name == Head(names)
             Step(v) ==
                 IF v.kind = "throw"
                 THEN [kind |-> "throw", val |-> v.val, tests |-> tests,
                       storage |-> storage]
                 ELSE ResolveTests(Tail(names),
                                   Put(tests, name,
                                       Put(tests[name], "selectedVariant", v.val)),
                                   tOv, v.storage, draws)
         IN  Once({Step(v) : v \in {getTestVariant(name, tests, tOv, storage,
                                                    draws[name])}})

\* getProjectData(): the accumulators of both reduces are the stored objects,
\* so the resolved values are written into #data.tests and #data.flags
getProjectData(tests, flags, fOv, tOv, storage, draws) ==
    LET Finish(t) ==
            IF t.kind = "throw"
            THEN [kind |-> "throw", val |-> t.val, tests |-> t.tests, flags |-> flags,
                  storage |-> t.storage]
            ELSE [kind |-> "return", val |-> "", tests |-> t.tests,
                  flags |-> [name \in DOMAIN flags |->
                                Some(getFeatureFlag(name, flags, fOv))],
                  storage |-> t.storage]
    IN  Once({Finish(t) : t \in {ResolveTests(KeysInOrder(TestOrder, tests), tests,
                                              tOv, storage, draws)}})

\* what a caller or a listener reads in the object getProjectData returns
Resolved(tests, flags) ==
    [tests |-> [name \in DOMAIN tests |-> tests[name].selectedVariant],
     flags |-> [name \in DOMAIN flags |-> flags[name][1]]]

\* the tests reduce of responseToLocalData: the accumulator is config.tests
RECURSIVE MergeTests(_, _)
MergeTests(snapshotTests, acc) ==
    IF snapshotTests = <<>> THEN acc
    ELSE LET e == Head(snapshotTests)
         IN  IF e.name \notin DOMAIN acc
             THEN MergeTests(Tail(snapshotTests), acc)
             ELSE MergeTests(Tail(snapshotTests),
                             Put(acc, e.name, Put(acc[e.name], "weights", e.weights)))

\* the flags reduce of responseToLocalData: the accumulator is a new object
RECURSIVE MergeFlags(_, _)
MergeFlags(snapshotFlags, acc) ==
    IF snapshotFlags = <<>> THEN acc
    ELSE LET e == Head(snapshotFlags)
         IN  MergeFlags(Tail(snapshotFlags), Put(acc, e.name, Some(e.isEnabled)))

\* a tests reduce that also takes the snapshot tests that are not declared
RECURSIVE MergeTests_addsUnknown(_, _)
MergeTests_addsUnknown(snapshotTests, acc) ==
    IF snapshotTests = <<>> THEN acc
    ELSE LET e == Head(snapshotTests)
         IN  MergeTests_addsUnknown(
                 Tail(snapshotTests),
                 Put(acc, e.name,
                     IF e.name \in DOMAIN acc THEN Put(acc[e.name], "weights", e.weights)
                     ELSE [variants |-> <<>>, weights |-> e.weights]))

responseToLocalData_addsUnknown(data, tests) ==
    [tests |-> MergeTests_addsUnknown(data.tests, tests),
     flags |-> MergeFlags(data.flags, EmptyMap)]

responseToLocalData(data, tests) ==
    [tests |-> MergeTests(data.tests, tests),
     flags |-> MergeFlags(data.flags, EmptyMap)]

\* listeners.forEach((listener) => listener(this.getProjectData()))
RECURSIVE notifyListeners(_, _, _, _, _)
notifyListeners(ls, s, fOv, tOv, draws) ==
    IF ls = <<>> THEN s
    ELSE LET Step(d) ==
                 IF d.kind = "throw"
                 THEN [s EXCEPT !.kind = "throw", !.val = d.val, !.tests = d.tests,
                                !.storage = d.storage]
                 ELSE notifyListeners(
                          Tail(ls),
                          [kind |-> "return", val |-> "", tests |-> d.tests,
                           flags |-> d.flags, storage |-> d.storage,
                           delivered |-> Append(s.delivered,
                                                [listener |-> Head(ls),
                                                 data |-> Resolved(d.tests, d.flags)])],
                          fOv, tOv, Tail(draws))
         IN  Once({Step(d) : d \in {getProjectData(s.tests, s.flags, fOv, tOv,
                                                   s.storage, Head(draws))}})

Notify(tests, flags, fOv, tOv, storage, draws) ==
    notifyListeners(listeners,
                    [kind |-> "return", val |-> "", tests |-> tests, flags |-> flags,
                     storage |-> storage, delivered |-> <<>>],
                    fOv, tOv, draws)

\* the forEach of setLocalOverrides over the parsed cookies
RECURSIVE IngestCookies(_, _, _)
IngestCookies(names, parsed, ov) ==
    IF names = {} THEN ov
    ELSE LET n == CHOOSE x \in names : TRUE
             ab == IF StartsWith(n, ABBY_AB_STORAGE_PREFIX)
                   THEN Put(ov.tests, StripProject(n), parsed[n]) ELSE ov.tests
             ff == IF StartsWith(n, ABBY_FF_STORAGE_PREFIX)
                   THEN Put(ov.flags, StripProject(n), parsed[n] = "true") ELSE ov.flags
         IN  IngestCookies(names \ {n}, parsed, [tests |-> ab, flags |-> ff])

setLocalOverrides(cookies, fOv, tOv) ==
    LET parsedCookies == parseCookies(cookies)
    IN  IngestCookies(DOMAIN parsedCookies, parsedCookies, [tests |-> tOv, flags |-> fOv])

\* the flag names a cookie string overrides
CookieFlags(cookies) ==
    {StripProject(n) : n \in {x \in DOMAIN parseCookies(cookies) :
                                  StartsWith(x, ABBY_FF_STORAGE_PREFIX)}}

----------------------------------------------------------------------------
(* Inputs *)

Environments == {"development", "production"}

OptionalBoolean == {Null, Some(TRUE), Some(FALSE)}

\* config.settings.flags
SettingsChoices ==
    {[devDefault |-> dd, default |-> d, devOverrides |-> o] :
        dd \in OptionalBoolean, d \in OptionalBoolean,
        o \in {EmptyMap} \cup {("f1" :> b) : b \in BOOLEAN}}

NoSettings == [devDefault |-> Null, default |-> Null, devOverrides |-> EmptyMap]

\* weights a snapshot carries for a two-variant test (sum > 0, section 3)
WeightLists == {w \in [1..2 -> 0..MaxWeight] : SumTo(w, 2) > 0}

SnapshotTests(names) ==
    {<<>>} \cup {<<[name |-> n, weights |-> w]>> : n \in names, w \in WeightLists}

SnapshotFlags(names) == SeqsUpTo([name : names, isEnabled : BOOLEAN], MaxSnapshotFlags)

\* the argument of init: an AbbyDataResponse, or null
Snapshots(tests, flags) ==
    {Null} \cup {Some([tests |-> t, flags |-> f]) : t \in tests, f \in flags}

Entry(name, value) == [wellFormed |-> TRUE, name |-> name, value |-> value]

TestCookie(value) == Entry(CookieName(ABBY_AB_STORAGE_PREFIX, projectId, "t1"), value)
FlagCookie(value) == Entry(CookieName(ABBY_FF_STORAGE_PREFIX, projectId, "f1"), value)
PlainCookie == Entry(CookieName("", "", "sid"), "true")
\* a cookie of another project
ForeignCookie == Entry(CookieName(ABBY_FF_STORAGE_PREFIX, "Q", "f1"), "true")
MalformedCookie == [wellFormed |-> FALSE, name |-> CookieName("", "", "sid"), value |-> ""]

CookieStrings(entries) == SeqsUpTo(entries, MaxCookieLen)

\* one Math.random() per test, for each getProjectData call
Draws(random) == [DOMAIN DeclaredTests -> random]
DrawsFor(ls, random) == [1..Len(ls) -> Draws(random)]

BoolToString(b) == IF b THEN "true" ELSE "false"

\* the record of a call: the operation, its argument (for init: "null", "empty"
\* or "data"), whether it returned or threw and what, and for getTestVariant
\* whether the random selector ran and what the call right before returned
\* when that was a getTestVariant of the same key
Call(op, key, kind, val) ==
    [op |-> op, key |-> key, kind |-> kind, val |-> val, drew |-> FALSE, prev |-> Null]

\* a call site before its call, and the fields of a call in progress: the
\* operation, where it stands, whether it dispatched a fetch, what the fetch
\* yielded and the rank of its completion among the fetches
NoRequest == [op |-> "none", pc |-> "idle", fetched |-> FALSE, data |-> Null, rank |-> 0]

SnapshotKind(data) ==
    IF data = Null THEN "null"
    ELSE IF data[1].tests = <<>> /\ data[1].flags = <<>> THEN "empty"
    ELSE "data"

----------------------------------------------------------------------------
(* Initial state: the engine right after its constructor.  A scenario      *)
(* names the environments, static settings, document.cookie values and     *)
(* storages the engine may be constructed in.                              *)

InitIn(scenario) ==
    /\ env \in scenario.environments
    /\ browser \in BOOLEAN
    /\ documentCookie \in (IF browser THEN scenario.documentCookies ELSE {<<>>})
    /\ settings \in scenario.settings
    /\ hasStorage \in scenario.hasStorage
    /\ sameConfig \in scenario.sameConfig
    /\ configTests = DeclaredTests
    /\ dataFlags = [f \in DeclaredFlags |-> Null]
    /\ remoteFlags = EmptyMap
    /\ flagOverrides = EmptyMap
    /\ testOverrides = EmptyMap
    /\ testStorage \in (IF hasStorage THEN scenario.storedBefore ELSE {EmptyMap})
    /\ flagStorage = EmptyMap
    /\ listeners = <<>>
    /\ registration = [l \in Listeners |-> "none"]
    /\ pinned = EmptyMap
    /\ last = Call("constructor", "", "return", "")
    /\ delivered = <<>>
    /\ handles = [l \in Listeners |-> [open |-> 0, spent |-> FALSE]]
    /\ peer = [tests |-> DeclaredTests, flags |-> [f \in DeclaredFlags |-> Null]]
    /\ dataInitialized = FALSE
    /\ requests = [c \in Requests |-> NoRequest]

static == <<env, browser, documentCookie, settings, hasStorage, sameConfig>>

\* the state of the asynchronous loads
loader == <<dataInitialized, requests>>

\* config.tests of the second Abby: the object itself when both were constructed
\* from one config object, and then every write to it is seen through both
Aliased == peer' = IF sameConfig THEN [peer EXCEPT !.tests = configTests'] ELSE peer

----------------------------------------------------------------------------
(* Operations *)

\* init(data)
InitCall(data, ndraws, fdraws) ==
    IF data = Null
    THEN /\ last' = Call("init", SnapshotKind(data), "throw", "TypeError")
         /\ delivered' = <<>>
         /\ UNCHANGED <<static, remoteFlags, configTests, dataFlags, flagOverrides, testOverrides,
                        testStorage, flagStorage, listeners, registration, pinned>>
    ELSE \E local \in {responseToLocalData(data[1], configTests)} :
         \E n \in {Notify(local.tests, local.flags, flagOverrides, testOverrides,
                          testStorage, ndraws)} :
         \E ingest \in {browser /\ n.kind = "return"} :
         \E ov \in {IF ingest
                    THEN setLocalOverrides(documentCookie, flagOverrides, testOverrides)
                    ELSE [tests |-> testOverrides, flags |-> flagOverrides]} :
         \E final \in {IF n.kind = "return"
                       THEN getProjectData(n.tests, n.flags, ov.flags, ov.tests,
                                           n.storage, fdraws)
                       ELSE n} :
             /\ configTests' = final.tests
             /\ dataFlags' = final.flags
             /\ remoteFlags' = local.flags
             /\ testStorage' = final.storage
             /\ flagOverrides' = ov.flags
             /\ testOverrides' = ov.tests
             /\ delivered' = n.delivered
             /\ pinned' = [f \in DOMAIN pinned |->
                              IF ingest /\ f \in CookieFlags(documentCookie)
                              THEN [pinned[f] EXCEPT !.since = "ingest"]
                              ELSE IF pinned[f].since = "updateFlag"
                              THEN [pinned[f] EXCEPT !.since = "init"]
                              ELSE pinned[f]]
             /\ last' = Call("init", SnapshotKind(data), final.kind,
                             IF final.kind = "return"
                             THEN Resolved(final.tests, final.flags) ELSE final.val)
             /\ UNCHANGED <<static, flagStorage, listeners, registration>>

\* updateFlag(name, value)
UpdateFlag(name, value, ndraws) ==
    \E fOv \in {Put(flagOverrides, name, value)} :
    \E n \in {Notify(configTests, dataFlags, fOv, testOverrides, testStorage, ndraws)} :
        /\ flagOverrides' = fOv
        /\ flagStorage' = IF env = "development" /\ hasStorage
                          THEN Put(flagStorage, name, BoolToString(value))
                          ELSE flagStorage
        /\ configTests' = n.tests
        /\ dataFlags' = n.flags
        /\ testStorage' = n.storage
        /\ delivered' = n.delivered
        /\ pinned' = Put(pinned, name, [val |-> value, since |-> "updateFlag"])
        /\ last' = Call("updateFlag", name, n.kind, n.val)
        /\ UNCHANGED <<static, remoteFlags, testOverrides, listeners, registration>>

\* updateLocalVariant(key, override)
UpdateLocalVariant(key, override, ndraws) ==
    \E tOv \in {Put(testOverrides, key, override)} :
    \E n \in {Notify(configTests, dataFlags, flagOverrides, tOv,
                     StorageSet(testStorage, key, override), ndraws)} :
        /\ testOverrides' = tOv
        /\ configTests' = n.tests
        /\ dataFlags' = n.flags
        /\ testStorage' = n.storage
        /\ delivered' = n.delivered
        /\ last' = Call("updateLocalVariant", key, n.kind, n.val)
        /\ UNCHANGED <<static, remoteFlags, flagOverrides, flagStorage, listeners, registration, pinned>>

\* setLocalOverrides(cookies), called by the application
SetLocalOverrides(cookies) ==
    \E ov \in {setLocalOverrides(cookies, flagOverrides, testOverrides)} :
        /\ flagOverrides' = ov.flags
        /\ testOverrides' = ov.tests
        /\ pinned' = [f \in DOMAIN pinned \ CookieFlags(cookies) |-> pinned[f]]
        /\ delivered' = <<>>
        /\ last' = Call("setLocalOverrides", cookies, "return", "")
        /\ UNCHANGED <<static, remoteFlags, configTests, dataFlags, testStorage, flagStorage,
                       listeners, registration>>

\* this.listeners.add(listener)
subscribe(ls, listener) ==
    IF \E i \in 1..Len(ls) : ls[i] = listener THEN ls ELSE Append(ls, listener)

\* a handle that deletes nothing
unsubscribe_keeps(ls, listener) == ls

\* the handle subscribe returns: this.listeners.delete(listener)
unsubscribe(ls, listener) == SelectSeq(ls, LAMBDA x : x # listener)

\* subscribe(listener).  The handles of one listener are told apart up to
\* `limit` open ones; with a limit of 0 they are not told apart.
Subscribe(listener, limit) ==
    /\ limit > 0 => handles[listener].open < limit
    /\ handles' = IF limit > 0 THEN [handles EXCEPT ![listener].open = @ + 1]
                  ELSE handles
    /\ listeners' = subscribe(listeners, listener)
    /\ registration' = [registration EXCEPT ![listener] = "subscribed"]
    /\ delivered' = <<>>
    /\ last' = Call("subscribe", "", "return", "")
    /\ UNCHANGED <<static, remoteFlags, configTests, dataFlags, flagOverrides, testOverrides,
                   testStorage, flagStorage, pinned>>

\* a call of a handle that an earlier subscribe(listener) returned: one not
\* called before (fresh), or one called before
Unsubscribe(listener, fresh, limit) ==
    /\ IF limit = 0 THEN fresh /\ registration[listener] # "none"
       ELSE IF fresh THEN handles[listener].open > 0 ELSE handles[listener].spent
    /\ handles' = IF limit = 0 THEN handles
                  ELSE [handles EXCEPT ![listener] =
                           [open |-> IF fresh THEN @.open - 1 ELSE @.open,
                            spent |-> TRUE]]
    /\ listeners' = unsubscribe(listeners, listener)
    /\ registration' = [registration EXCEPT ![listener] = "unsubscribed"]
    /\ delivered' = <<>>
    /\ last' = Call("unsubscribe", "", "return", "")
    /\ UNCHANGED <<static, remoteFlags, configTests, dataFlags, flagOverrides, testOverrides,
                   testStorage, flagStorage, pinned>>

\* getFeatureFlag(key), called by the application
GetFeatureFlag(key) ==
    /\ last' = Call("getFeatureFlag", key, "return",
                    getFeatureFlag(key, dataFlags, flagOverrides))
    /\ delivered' = <<>>
    /\ UNCHANGED <<static, remoteFlags, configTests, dataFlags, flagOverrides, testOverrides,
                   testStorage, flagStorage, listeners, registration, pinned>>

\* getTestVariant(key), called by the application
GetTestVariant(key, k) ==
    \E v \in {getTestVariant(key, configTests, testOverrides, testStorage, k)} :
        /\ testStorage' = v.storage
        /\ last' = [Call("getTestVariant", key, v.kind, v.val) EXCEPT
                        !.drew = v.drew,
                        !.prev = IF last.op = "getTestVariant" /\ last.key = key
                                    /\ last.kind = "return"
                                 THEN Some(last.val) ELSE Null]
        /\ delivered' = <<>>
        /\ UNCHANGED <<static, remoteFlags, configTests, dataFlags, flagOverrides, testOverrides,
                       flagStorage, listeners, registration, pinned>>

\* getProjectData(), called by the application
GetProjectData(draws) ==
    \E d \in {getProjectData(configTests, dataFlags, flagOverrides, testOverrides,
                             testStorage, draws)} :
        /\ configTests' = d.tests
        /\ dataFlags' = d.flags
        /\ testStorage' = d.storage
        /\ last' = Call("getProjectData", "", d.kind,
                        IF d.kind = "return" THEN Resolved(d.tests, d.flags) ELSE d.val)
        /\ delivered' = <<>>
        /\ UNCHANGED <<static, remoteFlags, flagOverrides, testOverrides, flagStorage, listeners,
                       registration, pinned>>

\* what the calls of the first instance read and write, the loads aside
engine == <<configTests, dataFlags, remoteFlags, flagOverrides, testOverrides,
            testStorage, flagStorage, listeners, registration, pinned>>

\* the fetches that have completed
Completed == {c \in Requests : requests[c].rank > 0}

\* loadProjectData() that joins a fetch in flight instead of dispatching one
LoadProjectData_joins(c) ==
    /\ requests[c].op = "none"
    /\ requests' = [requests EXCEPT ![c] =
                        IF \E o \in Requests : requests[o].pc = "fetching"
                        THEN [NoRequest EXCEPT !.op = "load", !.pc = "done"]
                        ELSE [NoRequest EXCEPT !.op = "load", !.pc = "fetching",
                                               !.fetched = TRUE]]
    /\ last' = Call("loadProjectData", "", "pending", "")
    /\ delivered' = <<>>
    /\ UNCHANGED <<static, engine, handles, peer, dataInitialized>>

\* loadProjectData(), up to its await: the fetch is dispatched
LoadProjectData(c) ==
    /\ requests[c].op = "none"
    /\ requests' = [requests EXCEPT ![c] =
                        [NoRequest EXCEPT !.op = "load", !.pc = "fetching",
                                          !.fetched = TRUE]]
    /\ last' = Call("loadProjectData", "", "pending", "")
    /\ delivered' = <<>>
    /\ UNCHANGED <<static, engine, handles, peer, dataInitialized>>

\* getProjectDataAsync(), up to its await: it calls loadProjectData unless
\* dataInitialized, and else runs to its end
GetProjectDataAsync(c, draws) ==
    /\ requests[c].op = "none"
    /\ IF ~dataInitialized
       THEN /\ requests' = [requests EXCEPT ![c] =
                                [NoRequest EXCEPT !.op = "async", !.pc = "fetching",
                                                  !.fetched = TRUE]]
            /\ last' = Call("getProjectDataAsync", "", "pending", "")
            /\ delivered' = <<>>
            /\ UNCHANGED <<static, engine, handles, peer, dataInitialized>>
       ELSE /\ requests' = [requests EXCEPT ![c] =
                                [NoRequest EXCEPT !.op = "async", !.pc = "done"]]
            /\ dataInitialized' = TRUE
            /\ GetProjectData(draws)
            /\ Aliased
            /\ UNCHANGED handles

\* the branch of loadProjectData for a fetch that yielded data all the same
NoData_initsEmpty ==
    /\ dataFlags' = EmptyMap
    /\ remoteFlags' = EmptyMap
    /\ last' = Call("loadProjectData", "null", "return", "")
    /\ delivered' = <<>>
    /\ UNCHANGED <<static, configTests, flagOverrides, testOverrides, testStorage,
                   flagStorage, listeners, registration, pinned>>

\* if (!data) return
NoData ==
    /\ last' = Call("loadProjectData", "null", "return", "")
    /\ delivered' = <<>>
    /\ UNCHANGED <<static, engine>>

\* the fetch of call c yields `data` (null for a failed or empty fetch) and
\* loadProjectData runs from its await to its end
FetchComplete(c, data, ndraws, fdraws) ==
    /\ requests[c].pc = "fetching"
    /\ IF data = Null THEN NoData ELSE InitCall(data, ndraws, fdraws)
    /\ requests' = [requests EXCEPT ![c] =
                        [@ EXCEPT !.pc = IF requests[c].op = "load" \/ last'.kind = "throw"
                                         THEN "done" ELSE "loaded",
                                  !.data = data,
                                  !.rank = Cardinality(Completed) + 1]]
    /\ Aliased
    /\ UNCHANGED <<handles, dataInitialized>>

\* getProjectDataAsync that does not set dataInitialized
AsyncFinish_notMarking(c, draws) ==
    /\ requests[c].pc = "loaded"
    /\ requests' = [requests EXCEPT ![c].pc = "done"]
    /\ GetProjectData(draws)
    /\ Aliased
    /\ UNCHANGED <<handles, dataInitialized>>

\* getProjectDataAsync() from its await to its end
AsyncFinish(c, draws) ==
    /\ requests[c].pc = "loaded"
    /\ requests' = [requests EXCEPT ![c].pc = "done"]
    /\ dataInitialized' = TRUE
    /\ GetProjectData(draws)
    /\ Aliased
    /\ UNCHANGED handles

\* init(data) of the second Abby, which has no listener, no override and no
\* storage; its config.tests is that of the first one when they share it
PeerInit(data, fdraws) ==
    \E local \in {responseToLocalData(data, peer.tests)} :
    \E final \in {getProjectData(local.tests, local.flags, EmptyMap, EmptyMap,
                                 EmptyMap, fdraws)} :
        /\ peer' = [tests |-> final.tests, flags |-> final.flags]
        /\ configTests' = IF sameConfig THEN final.tests ELSE configTests
        /\ last' = Call("peer.init", SnapshotKind(Some(data)), final.kind,
                        IF final.kind = "return"
                        THEN Resolved(final.tests, final.flags) ELSE final.val)
        /\ delivered' = <<>>
        /\ UNCHANGED <<static, dataFlags, remoteFlags, flagOverrides, testOverrides,
                       testStorage, flagStorage, listeners, registration, pinned,
                       handles, loader>>

\* getConfig(): the config object passed to the constructor
getConfig == [projectId |-> projectId, tests |-> configTests, flags |-> DeclaredFlags]

\* the calls an application makes, with arguments from the sets of `inp`
NextIn(inp) ==
    \/ \E data \in inp.snapshots, nd \in DrawsFor(listeners, inp.random),
          fd \in Draws(inp.random) :
           InitCall(data, nd, fd) /\ Aliased /\ UNCHANGED <<handles, loader>>
    \/ \E name \in DeclaredFlags, value \in inp.flagValues,
          nd \in DrawsFor(listeners, inp.random) :
           UpdateFlag(name, value, nd) /\ Aliased /\ UNCHANGED <<handles, loader>>
    \/ \E key \in DOMAIN DeclaredTests, value \in inp.variants,
          nd \in DrawsFor(listeners, inp.random) :
           UpdateLocalVariant(key, value, nd) /\ Aliased /\ UNCHANGED <<handles, loader>>
    \/ \E cookies \in inp.cookies :
           SetLocalOverrides(cookies) /\ UNCHANGED <<handles, peer, loader>>
    \/ \E l \in inp.listeners : Subscribe(l, inp.handles) /\ UNCHANGED <<peer, loader>>
    \/ \E l \in inp.listeners, fresh \in BOOLEAN :
           Unsubscribe(l, fresh, inp.handles) /\ UNCHANGED <<peer, loader>>
    \/ \E key \in inp.flagReads :
           GetFeatureFlag(key) /\ UNCHANGED <<handles, peer, loader>>
    \/ \E key \in inp.testReads, k \in inp.random :
           GetTestVariant(key, k) /\ UNCHANGED <<handles, peer, loader>>
    \/ \E draws \in Draws(inp.random) :
           GetProjectData(draws) /\ Aliased /\ UNCHANGED <<handles, loader>>

----------------------------------------------------------------------------
(* The flag half: every environment, static setting and flag input; one    *)
(* listener, no storage and a fixed random source.                         *)

FlagCookies == CookieStrings({FlagCookie("true"), FlagCookie("false")})

FlagScenario ==
    [environments |-> Environments,
     settings |-> SettingsChoices,
     documentCookies |-> FlagCookies \ {<<>>},
     hasStorage |-> {FALSE},
     sameConfig |-> {FALSE},
     storedBefore |-> {EmptyMap}]

FlagInputs ==
    [snapshots |-> Snapshots({<<>>}, SnapshotFlags(DeclaredFlags)),
     flagValues |-> BOOLEAN,
     flagReads |-> DeclaredFlags,
     variants |-> {"A"},
     testReads |-> DOMAIN DeclaredTests,
     cookies |-> FlagCookies,
     listeners |-> {1},
     handles |-> 0,
     random |-> {0}]

InitFlags == InitIn(FlagScenario)
NextFlags == NextIn(FlagInputs)
SpecFlags == InitFlags /\ [][NextFlags]_vars

----------------------------------------------------------------------------
(* The test half: every environment, storage and test input; one listener, *)
(* no static flag settings.                                                *)

TestCookies == CookieStrings({TestCookie("X")})

TestScenario ==
    [environments |-> Environments,
     settings |-> {NoSettings},
     documentCookies |-> TestCookies \ {<<>>},
     hasStorage |-> BOOLEAN,
     sameConfig |-> {FALSE},
     storedBefore |-> {EmptyMap, ("t1" :> "A")}]

TestInputs ==
    [snapshots |-> Snapshots(SnapshotTests(TestNames), {<<>>}),
     flagValues |-> {TRUE},
     flagReads |-> FlagNames,
     variants |-> {"A", "B"},
     testReads |-> TestNames,
     cookies |-> TestCookies,
     listeners |-> {1},
     handles |-> 0,
     random |-> RandomDraws]

InitTests == InitIn(TestScenario)
NextTests == NextIn(TestInputs)
SpecTests == InitTests /\ [][NextTests]_vars

----------------------------------------------------------------------------
(* The listener half: every listener, environment and storage; one flag    *)
(* value, one variant and one cookie.                                      *)

HubCookies == CookieStrings({FlagCookie("true")})

HubScenario ==
    [environments |-> Environments,
     settings |-> {NoSettings},
     documentCookies |-> HubCookies \ {<<>>},
     hasStorage |-> BOOLEAN,
     sameConfig |-> {FALSE},
     storedBefore |-> {EmptyMap}]

HubInputs ==
    [snapshots |-> Snapshots({<<>>}, SnapshotFlags({"g"})),
     flagValues |-> {TRUE},
     flagReads |-> DeclaredFlags,
     variants |-> {"B"},
     testReads |-> DOMAIN DeclaredTests,
     cookies |-> HubCookies \ {<<>>},
     listeners |-> Listeners,
     handles |-> 0,
     random |-> RandomDraws]

InitHub == InitIn(HubScenario)
NextHub == NextIn(HubInputs)
SpecHub == InitHub /\ [][NextHub]_vars

----------------------------------------------------------------------------
(* The handles: the handles of every listener told apart, in production    *)
(* with a test storage.                                                    *)

HandleScenario ==
    [environments |-> {"production"},
     settings |-> {NoSettings},
     documentCookies |-> HubCookies \ {<<>>},
     hasStorage |-> {TRUE},
     sameConfig |-> {FALSE},
     storedBefore |-> {EmptyMap}]

HandleInputs ==
    [snapshots |-> Snapshots({<<>>}, SnapshotFlags({"g"})),
     flagValues |-> {TRUE},
     flagReads |-> DeclaredFlags,
     variants |-> {"B"},
     testReads |-> DOMAIN DeclaredTests,
     cookies |-> HubCookies \ {<<>>},
     listeners |-> Listeners,
     handles |-> MaxHandles,
     random |-> {0}]

InitHandles == InitIn(HandleScenario)
NextHandles == NextIn(HandleInputs)
SpecHandles == InitHandles /\ [][NextHandles]_vars

----------------------------------------------------------------------------
(* The cookies: cookie strings of several entries, of this project, of     *)
(* another one, of neither prefix and malformed; in development.           *)

CookieEntries ==
    {TestCookie("B"), TestCookie("X"), FlagCookie("true"), FlagCookie("1"),
     PlainCookie, ForeignCookie, MalformedCookie}

CookieScenario ==
    [environments |-> {"development"},
     settings |-> {NoSettings},
     documentCookies |-> {<<FlagCookie("false")>>},
     hasStorage |-> {FALSE},
     sameConfig |-> {FALSE},
     storedBefore |-> {EmptyMap}]

CookieInputs ==
    [snapshots |-> Snapshots({<<>>}, {<<>>}) \ {Null},
     flagValues |-> {FALSE},
     flagReads |-> DeclaredFlags,
     variants |-> {"A"},
     testReads |-> DOMAIN DeclaredTests,
     cookies |-> SeqsUpTo(CookieEntries, MaxCookieEntries),
     listeners |-> {1},
     handles |-> 0,
     random |-> {0}]

InitCookies == InitIn(CookieScenario)
NextCookies == NextIn(CookieInputs)
SpecCookies == InitCookies /\ [][NextCookies]_vars

----------------------------------------------------------------------------
(* Two instances, constructed from one config object or from two equal     *)
(* ones, without storages.                                                 *)

PeerScenario ==
    [environments |-> {"production"},
     settings |-> {NoSettings},
     documentCookies |-> {<<FlagCookie("true")>>},
     hasStorage |-> {FALSE},
     sameConfig |-> BOOLEAN,
     storedBefore |-> {EmptyMap}]

PeerInputs ==
    [snapshots |-> (Snapshots(SnapshotTests(DOMAIN DeclaredTests), {<<>>})
                        \cup Snapshots({<<>>}, SnapshotFlags(DeclaredFlags))) \ {Null},
     flagValues |-> {TRUE},
     flagReads |-> DeclaredFlags,
     variants |-> {"B"},
     testReads |-> DOMAIN DeclaredTests,
     cookies |-> {<<FlagCookie("false")>>},
     listeners |-> {1},
     handles |-> 0,
     random |-> {0}]

InitPeers == InitIn(PeerScenario)
NextPeers ==
    \/ NextIn(PeerInputs)
    \/ \E data \in PeerInputs.snapshots, fd \in Draws(PeerInputs.random) :
           PeerInit(data[1], fd)
SpecPeers == InitPeers /\ [][NextPeers]_vars

----------------------------------------------------------------------------
(* The loads: the calls that fetch the remote data, in production without  *)
(* storages.                                                               *)

LoadScenario ==
    [environments |-> {"production"},
     settings |-> {NoSettings},
     documentCookies |-> {<<FlagCookie("true")>>},
     hasStorage |-> {FALSE},
     sameConfig |-> {FALSE},
     storedBefore |-> {EmptyMap}]

LoadInputs ==
    [snapshots |-> Snapshots({<<>>}, {<<>>}) \ {Null},
     flagValues |-> {TRUE},
     flagReads |-> DeclaredFlags,
     variants |-> {"B"},
     testReads |-> DOMAIN DeclaredTests,
     cookies |-> {<<FlagCookie("false")>>},
     listeners |-> {1},
     handles |-> 0,
     random |-> {0}]

\* what a fetch yields: a snapshot, or null when it failed or was empty
Fetched == Snapshots({<<>>}, SnapshotFlags(DeclaredFlags))

InitLoad == InitIn(LoadScenario)
NextLoad ==
    \/ NextIn(LoadInputs)
    \/ \E c \in Requests : LoadProjectData(c)
    \/ \E c \in Requests, draws \in Draws(LoadInputs.random) :
           GetProjectDataAsync(c, draws)
    \/ \E c \in Requests, data \in Fetched,
          nd \in DrawsFor(listeners, LoadInputs.random),
          fd \in Draws(LoadInputs.random) :
           FetchComplete(c, data, nd, fd)
    \/ \E c \in Requests, draws \in Draws(LoadInputs.random) : AsyncFinish(c, draws)
SpecLoad == InitLoad /\ [][NextLoad]_vars

----------------------------------------------------------------------------
(* Flag resolution *)

\* the first present value of a sequence of optional values
RECURSIVE FirstPresent(_)
FirstPresent(opts) ==
    IF Head(opts) # Null THEN Head(opts)[1] ELSE FirstPresent(Tail(opts))

Lookup(m, k) == IF k \in DOMAIN m THEN Some(m[k]) ELSE Null

RemoteValue(f) == IF f \in DOMAIN remoteFlags THEN remoteFlags[f] ELSE Null

C4_EmptyInitKeepsState ==
    [][(last'.op = "init" /\ last'.key \in {"empty", "null"})
          => /\ \A f \in DeclaredFlags :
                   /\ RemoteValue(f)' = RemoteValue(f)
                   /\ getFeatureFlag(f, dataFlags', flagOverrides')
                          = getFeatureFlag(f, dataFlags, flagOverrides')
             /\ \A t \in DOMAIN DeclaredTests :
                   Lookup(configTests'[t], "weights") = Lookup(configTests[t], "weights")
      ]_vars

----------------------------------------------------------------------------
(* Variant resolution *)

Variants(t) == {DeclaredTests[t].variants[i] : i \in 1..Len(DeclaredTests[t].variants)}

\* the override getTestVariant honors: the override map's entry, in development
HonoredOverride(t) ==
    IF env = "development" THEN Lookup(testOverrides, t) ELSE Null

\* C2 as stated: whatever init, updateLocalVariant, setLocalOverrides and read
\* calls came before, getTestVariant(T) of a declared test T returns one of
\* T's variants.
C2_ReturnsDeclaredVariant ==
    (last.op = "getTestVariant" /\ last.key \in DOMAIN DeclaredTests
        /\ last.kind = "return")
        => last.val \in Variants(last.key)

\* C3 as stated: getFeatureFlag of an undeclared flag fails with
\* UnknownFlagError and getTestVariant of an undeclared test fails with
\* UnknownTestError.
C3_UnknownNamesRaise ==
    /\ (last.op = "getFeatureFlag" /\ last.key \notin DeclaredFlags)
           => (last.kind = "throw" /\ last.val = "UnknownFlagError")
    /\ (last.op = "getTestVariant" /\ last.key \notin DOMAIN DeclaredTests)
           => (last.kind = "throw" /\ last.val = "UnknownTestError")

\* C5: with a test storage injected, a getTestVariant(T) call right after a
\* getTestVariant(T) call that returned returns the same variant without
\* running the random selector; a call that ran the selector leaves the
\* selected variant in the storage under T; and a call that neither ran the
\* selector nor honored an override returned the storage's value for T.
C5_StableUnderStorage ==
    (last.op = "getTestVariant" /\ last.key \in DOMAIN DeclaredTests /\ hasStorage
        /\ last.kind = "return")
        => /\ last.prev # Null => (last.val = last.prev[1] /\ ~last.drew)
           /\ last.drew => Lookup(testStorage, last.key) = Some(last.val)
           /\ (~last.drew /\ HonoredOverride(last.key) = Null)
                  => Lookup(testStorage, last.key) = Some(last.val)

\* the second of two consecutive calls returns the stored variant, no override
\* being set
C5_Witness ==
    /\ last.op = "getTestVariant"
    /\ last.key \in DOMAIN DeclaredTests
    /\ hasStorage
    /\ last.prev = Some(last.val)
    /\ ~last.drew
    /\ last.key \notin DOMAIN testOverrides
    /\ "weights" \in DOMAIN configTests[last.key]

\* what getTestVariant(t) returns for Math.random() = k / RandomResolution
ReadVariant(t, tests, tOv, storage, k) == getTestVariant(t, tests, tOv, storage, k).val

\* C8 as stated: outside development, getTestVariant(T) right after
\* updateLocalVariant(T, v) returns what it returned right before it, with
\* or without a test storage.
C8_AsStated ==
    [][(last'.op = "updateLocalVariant" /\ env # "development")
          => \A k \in RandomDraws :
                 ReadVariant(last'.key, configTests', testOverrides', testStorage', k)
                     = ReadVariant(last'.key, configTests, testOverrides, testStorage, k)
      ]_vars

\* C8 amended: outside development getTestVariant(T) does not read the
\* override map; without a test storage it returns after
\* updateLocalVariant(T, v) what it returned before, and with a test storage
\* it returns v, which updateLocalVariant persisted under T.
C8_OverrideMapOnlyInDevelopment ==
    [][(last'.op = "updateLocalVariant" /\ env # "development")
          => \A k \in RandomDraws :
                 ReadVariant(last'.key, configTests', testOverrides', testStorage', k)
                     = IF hasStorage
                       THEN testOverrides'[last'.key]
                       ELSE ReadVariant(last'.key, configTests, testOverrides,
                                        testStorage, k)
      ]_vars

\* outside development and without a storage, a read after
\* updateLocalVariant(T, v) returns a variant other than v
C8_Witness ==
    /\ last.op = "getTestVariant"
    /\ env # "development"
    /\ ~hasStorage
    /\ last.key \in DOMAIN testOverrides
    /\ last.kind = "return"
    /\ last.val # testOverrides[last.key]

----------------------------------------------------------------------------
(* Listeners *)

Delivered == {delivered[i] : i \in DOMAIN delivered}

Mutations == {"init", "updateFlag", "updateLocalVariant", "setLocalOverrides"}

\* C6: no init, updateFlag or updateLocalVariant call invokes a listener whose
\* unsubscribe handle was called after its latest subscribe.
C6_UnsubscribedNotInvoked ==
    \A d \in Delivered : registration[d.listener] # "unsubscribed"

\* a notification went out while a listener was unsubscribed
C6_Witness ==
    /\ delivered # <<>>
    /\ last.op \in {"init", "updateFlag", "updateLocalVariant"}
    /\ \E l \in Listeners : registration[l] = "unsubscribed"

\* C9 as stated: when init, updateFlag, updateLocalVariant or setLocalOverrides
\* returns, every registered listener has been invoked by it with the flag
\* values that the state it leaves resolves to.
C9_EveryMutationNotifies ==
    (last.op \in Mutations /\ last.kind = "return")
        => \A i \in DOMAIN listeners :
               \E d \in Delivered :
                   /\ d.listener = listeners[i]
                   /\ \A f \in DOMAIN d.data.flags \cap DeclaredFlags :
                          d.data.flags[f] = getFeatureFlag(f, dataFlags, flagOverrides)

\* C10 as stated: the listeners one mutating call invokes all receive the
\* same flag values and the same selected variant of every test.
C10_SameSnapshotForAll ==
    \A d1, d2 \in Delivered : d1.data = d2.data

\* C11 as stated: a listener that holds a handle not called yet (it was
\* subscribed more often than its handles were called) is invoked by every
\* init, updateFlag and updateLocalVariant call that returns.
C11_RegistrationsIndependent ==
    (last.op \in {"init", "updateFlag", "updateLocalVariant"} /\ last.kind = "return")
        => \A l \in Listeners :
               handles[l].open > 0 => \E d \in Delivered : d.listener = l

\* C13 as stated: the flag names of the data getProjectData and init return
\* are the declared flag names.
C13_ResolvedFlagsAreDeclared ==
    (last.op \in {"init", "getProjectData"} /\ last.kind = "return")
        => DOMAIN last.val.flags = DeclaredFlags

----------------------------------------------------------------------------
(* Cookie ingestion *)

\* the parsed cookies of this project with the given prefix
OwnCookies(parsed, prefix) ==
    {n \in DOMAIN parsed : n.prefix = prefix /\ n.project = projectId}

\* the override keys that the parsed cookies with the given prefix write
Written(parsed, prefix) ==
    {StripProject(n) : n \in {x \in DOMAIN parsed : StartsWith(x, prefix)}}

\* C12: setLocalOverrides(cookies) sets, for every parsed entry named
\* <ab-prefix>P_<testName> with value v, the test override testName to v, and
\* for every parsed entry named <ff-prefix>P_<flagName> with value v, the flag
\* override flagName to (v = "true"); an override that no entry with the
\* prefix names is left as it was, so entries of neither prefix change none.
C12_CookiesMapToOverrides ==
    [][last'.op = "setLocalOverrides" =>
        \E parsed \in {parseCookies(last'.key)} :
            /\ \A n \in OwnCookies(parsed, ABBY_AB_STORAGE_PREFIX) :
                   Lookup(testOverrides', n.bare) = Some(parsed[n])
            /\ \A n \in OwnCookies(parsed, ABBY_FF_STORAGE_PREFIX) :
                   Lookup(flagOverrides', n.bare) = Some(parsed[n] = "true")
            /\ \A k \in (DOMAIN testOverrides' \cup DOMAIN testOverrides)
                         \ Written(parsed, ABBY_AB_STORAGE_PREFIX) :
                   Lookup(testOverrides', k) = Lookup(testOverrides, k)
            /\ \A k \in (DOMAIN flagOverrides' \cup DOMAIN flagOverrides)
                         \ Written(parsed, ABBY_FF_STORAGE_PREFIX) :
                   Lookup(flagOverrides', k) = Lookup(flagOverrides, k)]_vars

\* a setLocalOverrides call with a test cookie, a flag cookie whose value is
\* not "true", and the overrides they made
C12_Witness ==
    /\ last.op = "setLocalOverrides"
    /\ last.key = <<TestCookie("B"), FlagCookie("1")>>
    /\ Lookup(testOverrides, "t1") = Some("B")
    /\ Lookup(flagOverrides, "f1") = Some(FALSE)

----------------------------------------------------------------------------
(* Instances *)

\* what an instance holds: per test the weights, and the stored flag values
Held(tests, flags) ==
    [weights |-> [n \in DOMAIN tests |-> Lookup(tests[n], "weights")], flags |-> flags]

\* C14 as stated: a call on the first instance changes neither the weights
\* nor the stored flag values of the second one, and an init of the second
\* one changes neither those of the first one nor its overrides.
C14_InstancesIsolated ==
    [][/\ last'.op # "peer.init" =>
              Held(peer'.tests, peer'.flags) = Held(peer.tests, peer.flags)
       /\ last'.op = "peer.init" =>
              /\ Held(configTests', dataFlags') = Held(configTests, dataFlags)
              /\ UNCHANGED <<flagOverrides, testOverrides>>]_vars

----------------------------------------------------------------------------
(* Loads *)

\* call c starts as operation op in this step
Starts(c, op) == requests[c].op = "none" /\ requests'[c].op = op

\* the fetch of call c completes in this step
Completes(c) == requests[c].pc = "fetching" /\ requests'[c].pc # "fetching"

\* the flag values a snapshot carries: per name, those of its last entry
Carried(flags) ==
    [n \in {flags[i].name : i \in DOMAIN flags} |->
        Some(flags[CHOOSE i \in DOMAIN flags :
                      /\ flags[i].name = n
                      /\ \A j \in DOMAIN flags : flags[j].name = n => j <= i].isEnabled)]

\* C15: loads are not coalesced.  Every loadProjectData call, and every
\* getProjectDataAsync call made before one has completed, dispatches its own
\* fetch, whatever fetches are in flight; and every fetch that completes with
\* a snapshot calls init with it, so the stored flag values are then those of
\* the snapshot that completed last.
C15_LoadsNotCoalesced ==
    [][\A c \in Requests :
          /\ Starts(c, "load") => requests'[c].fetched
          /\ (Starts(c, "async") /\ ~dataInitialized) => requests'[c].fetched
          /\ (Completes(c) /\ requests'[c].data # Null) =>
                 /\ last'.op = "init"
                 /\ remoteFlags' = Carried(requests'[c].data[1].flags)]_vars

\* two getProjectDataAsync calls that both dispatched a fetch, so the second
\* was made before the first completed; both fetches yielded a snapshot, init
\* ran for each, and the stored flag value is that of the later one
C15_Witness ==
    /\ \A c \in {1, 2} :
           /\ requests[c].op = "async" /\ requests[c].pc = "done"
           /\ requests[c].fetched
    /\ requests[1].rank = 2 /\ requests[2].rank = 1
    /\ requests[1].data = Some([tests |-> <<>>,
                                 flags |-> <<[name |-> "f1", isEnabled |-> TRUE]>>])
    /\ requests[2].data = Some([tests |-> <<>>,
                                 flags |-> <<[name |-> "f1", isEnabled |-> FALSE]>>])
    /\ remoteFlags = ("f1" :> Some(TRUE))

\* C16: a fetch that yields no data changes neither the stored tests and
\* flag values nor the overrides nor the storages and invokes no listener;
\* loadProjectData returns, and the getProjectData that ends a
\* getProjectDataAsync call then returns too, with the weights, the overrides
\* and the value of every flag as they were, and without invoking a listener.
C16_NoDataLeavesState ==
    [][\A c \in Requests :
          /\ (Completes(c) /\ requests'[c].data = Null) =>
                 /\ UNCHANGED <<configTests, dataFlags, remoteFlags, flagOverrides,
                                testOverrides, testStorage, flagStorage>>
                 /\ delivered' = <<>>
                 /\ last'.kind = "return"
          /\ (requests[c].pc = "loaded" /\ requests'[c].pc = "done"
                  /\ requests[c].data = Null) =>
                 /\ last'.kind = "return"
                 /\ delivered' = <<>>
                 /\ UNCHANGED <<remoteFlags, flagOverrides, testOverrides>>
                 /\ Held(configTests', remoteFlags') = Held(configTests, remoteFlags)
                 /\ \A f \in DOMAIN dataFlags \cup DeclaredFlags :
                        getFeatureFlag(f, dataFlags', flagOverrides')
                            = getFeatureFlag(f, dataFlags, flagOverrides)]_vars

\* a getProjectDataAsync call whose fetch yielded no data has returned, after
\* an earlier fetch had stored a flag value and with a listener subscribed
C16_Witness ==
    /\ \E c \in Requests :
           /\ requests[c].op = "async" /\ requests[c].pc = "done"
           /\ requests[c].fetched /\ requests[c].data = Null
           /\ requests[c].rank = 2
    /\ last.op = "getProjectData" /\ last.kind = "return"
    /\ remoteFlags = ("f1" :> Some(TRUE))
    /\ listeners # <<>>

\* an earlier getProjectDataAsync call has run to its end
AsyncCompleted == \E o \in Requests : requests[o].op = "async" /\ requests[o].pc = "done"

\* C19: a getProjectDataAsync call dispatches a fetch exactly when no
\* getProjectDataAsync call has completed before: not after one completed,
\* whatever its fetch yielded, and always otherwise, whatever init calls were
\* made.
C19_OneFetchPerInstance ==
    [][\A c \in Requests :
          Starts(c, "async") => (requests'[c].fetched <=> ~AsyncCompleted)]_vars

\* a getProjectDataAsync call whose fetch yielded no data completed, and a
\* later one returned without a fetch
C19_Witness ==
    \E c, o \in Requests :
        /\ requests[o].op = "async" /\ requests[o].pc = "done"
        /\ requests[o].fetched /\ requests[o].data = Null
        /\ requests[c].op = "async" /\ requests[c].pc = "done"
        /\ ~requests[c].fetched

----------------------------------------------------------------------------
(* Stored data *)

\* the weights a snapshot carries for test n, if it names it
CarriedWeights(data, n) ==
    IF \E i \in DOMAIN data.tests : data.tests[i].name = n
    THEN Some(data.tests[CHOOSE i \in DOMAIN data.tests :
                             /\ data.tests[i].name = n
                             /\ \A j \in DOMAIN data.tests :
                                    data.tests[j].name = n => j <= i].weights)
    ELSE Null

\* C17: after every call the test names and the variants of every test are
\* those declared; an init that returns attaches to each declared test the
\* weights its snapshot carries for it and leaves the weights of the other
\* tests alone; no other call changes weights.
C17_InitChangesOnlyWeights ==
    [][/\ DOMAIN configTests' = DOMAIN DeclaredTests
       /\ \A n \in DOMAIN DeclaredTests :
              configTests'[n].variants = DeclaredTests[n].variants
       /\ IF last'.op = "init" /\ last'.kind = "return"
          THEN \E data \in TestInputs.snapshots \ {Null} :
                   /\ SnapshotKind(data) = last'.key
                   /\ \A n \in DOMAIN DeclaredTests :
                          Lookup(configTests'[n], "weights")
                              = IF CarriedWeights(data[1], n) # Null
                                THEN CarriedWeights(data[1], n)
                                ELSE Lookup(configTests[n], "weights")
          ELSE \A n \in DOMAIN DeclaredTests :
                   Lookup(configTests'[n], "weights") = Lookup(configTests[n], "weights")]_vars

\* an init whose snapshot names a test that is not declared has returned:
\* the declared test has no weights, so the snapshot named no declared test
C17_Witness ==
    /\ last.op = "init" /\ last.key = "data" /\ last.kind = "return"
    /\ DOMAIN configTests = {"t1"}
    /\ "weights" \notin DOMAIN configTests["t1"]

\* C18 as stated: a getProjectData or getFeatureFlag call leaves the stored
\* flag values and the config that getConfig returns as they were.
C18_ReadsLeaveStoredData ==
    [][last'.op \in {"getProjectData", "getFeatureFlag"} =>
          /\ dataFlags' = dataFlags
          /\ getConfig' = getConfig]_vars

\* C20: a value the test storage holds under a key stays there, the same,
\* through every call but an updateLocalVariant of that key.
C20_PersistedNeverOverwritten ==
    [][\A n \in DOMAIN testStorage :
          /\ n \in DOMAIN testStorage'
          /\ testStorage'[n] # testStorage[n] =>
                 (last'.op = "updateLocalVariant" /\ last'.key = n)]_vars

\* getTestVariant returned the persisted A although the weights an init
\* attached select B on every draw
C20_Witness ==
    /\ hasStorage
    /\ Lookup(testStorage, "t1") = Some("A")
    /\ Lookup(configTests["t1"], "weights") = Some(<<0, 1>>)
    /\ last.op = "getTestVariant" /\ last.key = "t1" /\ last.val = "A"
    /\ "t1" \notin DOMAIN testOverrides

====
